---- MODULE Spec2Model ----
(***************************************************************************)
(* Registry clients of veinmind-runner: the docker client (credential      *)
(* store built by NewRegistryClient, the registry HTTP calls GetRepo,      *)
(* GetRepoTags, GetRepos, and the daemon calls Pull and Remove) and the    *)
(* containerd client (Pull, Remove).                                       *)
(*                                                                         *)
(* Go strings are sequences of one-character strings, so that parsing,     *)
(* canonicalisation and base64 are computed and not assumed.               *)
(***************************************************************************)
EXTENDS Integers, Sequences, FiniteSets, TLC

VARIABLES
    pc,        \* NewRegistryClient: "options", "config", "ready"
    auth,      \* RegistryClient.auth : map[string]Auth
    opts,      \* the options NewRegistryClient was called with: [address, auth]
    optI,      \* how many of them the options loop has applied
    cfgStatus, \* what became of the config file: "", "absent", "unreadable", "badjson", "parsed"
    cfgFile,   \* dockerConfig.AuthConfigs: a set of [server, blob], one per server key
    cfgLog,    \* the entries the range loop has visited, in its iteration order
    newErr,    \* error returned by NewRegistryClient ("pending" until it returns)
    req,       \* the registry HTTP request of the last GetRepo/GetRepoTags/GetRepos
    grPc,      \* GetRepos: "idle", "paging", "done"
    catalog,   \* the repositories the registry holds, in the order it reports them
    srvFails,  \* whether this registry may fail a catalog page request
    last,      \* GetRepos: the cursor
    repos,     \* GetRepos: the accumulator (the named result)
    grErr,     \* GetRepos: the named result err
    pages,     \* the pages the registry has served to this call, in order
    requests,  \* the number of catalog page requests this call has made
    backend,   \* the client that was constructed: "docker" or "containerd"
    images,    \* the docker daemon's images, by canonical reference
    conns,     \* daemon clients that have sent a request and were not closed
    streams,   \* pull response streams opened and not closed
    res,       \* the outcome of the last Pull/Remove
    pulled,    \* the identifiers successful Pulls have returned
    ctrImages  \* containerd image store of namespace ns: name -> digest

vars == <<pc, auth, opts, optI, cfgStatus, cfgFile, cfgLog, newErr, req, grPc, catalog, srvFails, last,
          repos, grErr, pages, requests, backend, images, conns, streams, res,
          pulled, ctrImages>>

httpVars  == <<req, grPc, catalog, srvFails, last, repos, grErr, pages, requests>>
newVars   == <<pc, auth, opts, optI, cfgStatus, cfgFile, cfgLog, newErr>>
localVars == <<backend, images, conns, streams, res, pulled, ctrImages>>

----------------------------------------------------------------------------
(* Strings                                                                 *)

Letters == {"a","b","c","d","e","f","g","h","i","j","k","l","m","n","o","p",
            "q","r","s","t","u","v","w","x","y","z"}
Digits  == {"0","1","2","3","4","5","6","7","8","9"}

Contains(s, c) == \E i \in 1..Len(s) : s[i] = c

\* strings.Index for a one-character separator; 0 when absent
IndexOf(s, c) ==
    IF Contains(s, c)
    THEN CHOOSE i \in 1..Len(s) : s[i] = c /\ \A j \in 1..(i - 1) : s[j] # c
    ELSE 0

LastIndexOf(s, c) ==
    IF Contains(s, c)
    THEN CHOOSE i \in 1..Len(s) : s[i] = c /\ \A j \in (i + 1)..Len(s) : s[j] # c
    ELSE 0

HasPrefix(s, p) == Len(s) >= Len(p) /\ SubSeq(s, 1, Len(p)) = p
Before(s, i) == SubSeq(s, 1, i - 1)
After(s, i)  == SubSeq(s, i + 1, Len(s))
Count(s, c)  == Cardinality({i \in 1..Len(s) : s[i] = c})

\* strings.Split(s, sep) for a one-character separator
RECURSIVE Split(_, _)
Split(s, c) ==
    IF ~Contains(s, c) THEN <<s>>
    ELSE <<Before(s, IndexOf(s, c))>> \o Split(After(s, IndexOf(s, c)), c)

RECURSIVE Flatten(_)
Flatten(ss) == IF ss = <<>> THEN <<>> ELSE Head(ss) \o Flatten(Tail(ss))

----------------------------------------------------------------------------
(* net/url.Parse, as far as its error and its Host are concerned           *)

RECURSIVE getSchemeAt(_, _)
getSchemeAt(rawURL, i) ==
    IF i > Len(rawURL) THEN [scheme |-> <<>>, rest |-> rawURL, err |-> FALSE]
    ELSE IF rawURL[i] \in Letters THEN getSchemeAt(rawURL, i + 1)
    ELSE IF rawURL[i] \in Digits \cup {"+", "-", "."} THEN
        IF i = 1 THEN [scheme |-> <<>>, rest |-> rawURL, err |-> FALSE]
        ELSE getSchemeAt(rawURL, i + 1)
    ELSE IF rawURL[i] = ":" THEN
        IF i = 1 THEN [scheme |-> <<>>, rest |-> <<>>, err |-> TRUE]
        ELSE [scheme |-> Before(rawURL, i), rest |-> After(rawURL, i), err |-> FALSE]
    ELSE [scheme |-> <<>>, rest |-> rawURL, err |-> FALSE]

getScheme(rawURL) == getSchemeAt(rawURL, 1)

\* ":" followed by digits only, or nothing
validOptionalPort(port) ==
    \/ port = <<>>
    \/ port[1] = ":" /\ \A i \in 2..Len(port) : port[i] \in Digits

\* parseHost: the port after the last ':' is numeric, the name has no space
parseHostErr(host) ==
    \/ LastIndexOf(host, ":") # 0
         /\ ~validOptionalPort(SubSeq(host, LastIndexOf(host, ":"), Len(host)))
    \/ Contains(host, " ")

\* the authority of "//authority/path": up to the first '/'
authorityOf(afterSlashes, i) ==
    IF i = 0 THEN afterSlashes ELSE Before(afterSlashes, i)

parseAuthority(authority) ==
    IF parseHostErr(authority) THEN [err |-> TRUE, Host |-> <<>>]
    ELSE [err |-> FALSE, Host |-> authority]

\* url.Parse after getScheme: scheme and rest
parseRest(scheme, rest, segment) ==
    IF ~HasPrefix(rest, <<"/">>) /\ scheme # <<>>
        THEN [err |-> FALSE, Host |-> <<>>]                \* opaque URL
    ELSE IF ~HasPrefix(rest, <<"/">>) /\ Contains(segment, ":")
        THEN [err |-> TRUE, Host |-> <<>>]  \* first path segment cannot contain colon
    ELSE IF (scheme # <<>> \/ ~HasPrefix(rest, <<"/", "/", "/">>))
             /\ HasPrefix(rest, <<"/", "/">>)
        THEN parseAuthority(authorityOf(After(rest, 2), IndexOf(After(rest, 2), "/")))
    ELSE [err |-> FALSE, Host |-> <<>>]

parseScheme(sch) ==
    IF sch.err THEN [err |-> TRUE, Host |-> <<>>]
    ELSE parseRest(sch.scheme, sch.rest, authorityOf(sch.rest, IndexOf(sch.rest, "/")))

urlParse(rawURL) == parseScheme(getScheme(rawURL))

----------------------------------------------------------------------------
(* go-containerregistry/pkg/name                                           *)

DefaultRegistry      == <<"i","n","d","e","x",".","d","o","c","k","e","r",".","i","o">>
defaultRegistryAlias == <<"d","o","c","k","e","r",".","i","o">>

\* checkRegistry: the name is the whole authority of "//" + name
hostIsNot(u, name) == u.err \/ u.Host # name

checkRegistryErr(name) == hostIsNot(urlParse(<<"/", "/">> \o name), name)

\* name.NewRegistry(name): error, or the registry whose String() is .registry
NewRegistry(name) ==
    IF checkRegistryErr(name) THEN [err |-> TRUE, registry |-> <<>>]
    ELSE IF name = <<>> \/ name = defaultRegistryAlias
        THEN [err |-> FALSE, registry |-> DefaultRegistry]
    ELSE [err |-> FALSE, registry |-> name]

\* name.NewRepository(repo) / name.ParseReference(repo): the registry the
\* reference addresses.  The first component is the registry iff it holds
\* a '.' or a ':'.
registryOfParts(repo, first, path, isReg) ==
    IF repo = <<>> \/ Contains(path, " ") \/ path = <<>>
    THEN [err |-> TRUE, registry |-> <<>>]
    ELSE NewRegistry(IF isReg THEN first ELSE <<>>)

registryOfFirst(repo, i, first) ==
    IF i # 0 /\ (Contains(first, ".") \/ Contains(first, ":"))
    THEN registryOfParts(repo, first, After(repo, i), TRUE)
    ELSE registryOfParts(repo, first, repo, FALSE)

registryOfSplit(repo, i) ==
    registryOfFirst(repo, i, IF i = 0 THEN <<>> ELSE Before(repo, i))

nameRegistryOf(repo) == registryOfSplit(repo, IndexOf(repo, "/"))

----------------------------------------------------------------------------
(* distribution/reference                                                  *)

defaultDomain       == <<"d","o","c","k","e","r",".","i","o">>
legacyDefaultDomain == <<"i","n","d","e","x",".","d","o","c","k","e","r",".","i","o">>
officialRepoName    == <<"l","i","b","r","a","r","y">>
defaultTag          == <<"l","a","t","e","s","t">>
localhost           == <<"l","o","c","a","l","h","o","s","t">>

\* the legacy domain is the default one; official images live in library/
normalizeDomain(d0, r0) ==
    IF d0 \in {legacyDefaultDomain, defaultDomain}
    THEN [domain |-> defaultDomain,
          remainder |-> IF Contains(r0, "/") THEN r0
                        ELSE officialRepoName \o <<"/">> \o r0]
    ELSE [domain |-> d0, remainder |-> r0]

splitAtSlash(name, i, first) ==
    IF i = 0 \/ (~Contains(first, ".") /\ ~Contains(first, ":") /\ first # localhost)
    THEN normalizeDomain(defaultDomain, name)
    ELSE normalizeDomain(first, After(name, i))

splitAt(name, i) == splitAtSlash(name, i, IF i = 0 THEN <<>> ELSE Before(name, i))

splitDockerDomain(name) == splitAt(name, IndexOf(name, "/"))

namedOf(repo, domain, path, tag) ==
    IF \/ repo = <<>>
       \/ Contains(repo, " ")
       \/ path = <<>> \/ tag = <<>>
       \/ path[1] = "/" \/ path[Len(path)] = "/"
       \/ Contains(tag, "/")
       \/ parseHostErr(domain)
    THEN [err |-> TRUE, Domain |-> <<>>, String |-> <<>>]
    ELSE [err |-> FALSE, Domain |-> domain,
          String |-> domain \o <<"/">> \o path \o <<":">> \o tag]

\* the tag follows the last ':' of the remainder; TagNameOnly adds the default
namedOfTag(repo, domain, rem, t) ==
    IF t = 0 THEN namedOf(repo, domain, rem, defaultTag)
    ELSE namedOf(repo, domain, Before(rem, t), After(rem, t))

namedOfSplit(repo, sp) ==
    namedOfTag(repo, sp.domain, sp.remainder, LastIndexOf(sp.remainder, ":"))

\* reference.ParseDockerRef(repo): error, or the named reference with its
\* Domain() and its String()
ParseDockerRef(repo) == namedOfSplit(repo, splitDockerDomain(repo))

----------------------------------------------------------------------------
(* encoding/base64, StdEncoding                                            *)

encodeStd ==
    <<"A","B","C","D","E","F","G","H","I","J","K","L","M","N","O","P",
      "Q","R","S","T","U","V","W","X","Y","Z","a","b","c","d","e","f",
      "g","h","i","j","k","l","m","n","o","p","q","r","s","t","u","v",
      "w","x","y","z","0","1","2","3","4","5","6","7","8","9","+","/">>

Sym(v) == encodeStd[v + 1]
IsSym(c) == \E i \in 1..Len(encodeStd) : encodeStd[i] = c
Val(c) == (CHOOSE i \in 1..Len(encodeStd) : encodeStd[i] = c) - 1

\* the bytes of the characters credentials are written with
Ascii == [c \in {":", "a", "e", "p", "r", "s", "u"} |->
            CASE c = ":" -> 58  [] c = "a" -> 97  [] c = "e" -> 101
              [] c = "p" -> 112 [] c = "r" -> 114 [] c = "s" -> 115
              [] c = "u" -> 117]

Bytes(s) == [i \in 1..Len(s) |-> Ascii[s[i]]]
Chr(b)   == IF \E c \in DOMAIN Ascii : Ascii[c] = b
            THEN CHOOSE c \in DOMAIN Ascii : Ascii[c] = b ELSE "?"
String(b) == [i \in 1..Len(b) |-> Chr(b[i])]

\* base64.StdEncoding.EncodeToString
RECURSIVE EncodeToString(_)
EncodeToString(b) ==
    IF b = <<>> THEN <<>>
    ELSE IF Len(b) = 1 THEN
        <<Sym(b[1] \div 4), Sym((b[1] % 4) * 16), "=", "=">>
    ELSE IF Len(b) = 2 THEN
        <<Sym(b[1] \div 4), Sym((b[1] % 4) * 16 + b[2] \div 16),
          Sym((b[2] % 16) * 4), "=">>
    ELSE <<Sym(b[1] \div 4), Sym((b[1] % 4) * 16 + b[2] \div 16),
           Sym((b[2] % 16) * 4 + b[3] \div 64), Sym(b[3] % 64)>>
         \o EncodeToString(SubSeq(b, 4, Len(b)))

\* base64.StdEncoding.DecodeString: quanta of four symbols, padding only
\* at the end of the last quantum
RECURSIVE DecodeString(_)
DecodeString(s) ==
    IF s = <<>> THEN [err |-> FALSE, bytes |-> <<>>]
    ELSE IF Len(s) < 4 THEN [err |-> TRUE, bytes |-> <<>>]
    ELSE
      LET q    == SubSeq(s, 1, 4)
          rest == DecodeString(SubSeq(s, 5, Len(s)))
          b1   == Val(q[1]) * 4 + Val(q[2]) \div 16
          b2   == (Val(q[2]) % 16) * 16 + Val(q[3]) \div 4
          b3   == (Val(q[3]) % 4) * 64 + Val(q[4])
      IN  IF \A i \in 1..4 : IsSym(q[i]) THEN
              IF rest.err THEN rest
              ELSE [err |-> FALSE, bytes |-> <<b1, b2, b3>> \o rest.bytes]
          ELSE IF Len(s) = 4 /\ IsSym(q[1]) /\ IsSym(q[2]) /\ IsSym(q[3]) /\ q[4] = "="
              THEN [err |-> FALSE, bytes |-> <<b1, b2>>]
          ELSE IF Len(s) = 4 /\ IsSym(q[1]) /\ IsSym(q[2]) /\ q[3] = "=" /\ q[4] = "="
              THEN [err |-> FALSE, bytes |-> <<b1>>]
          ELSE [err |-> TRUE, bytes |-> <<>>]

----------------------------------------------------------------------------
(* The credential store: RegistryClient.auth                               *)

Auth(u, p) == [Username |-> u, Password |-> p]
NoAuth     == Auth(<<>>, <<>>)                 \* the zero value: var auth Auth

EmptyMap == [k \in {} |-> NoAuth]              \* make(map[string]Auth)
Put(m, k, v) == [x \in DOMAIN m \cup {k} |-> IF x = k THEN v ELSE m[x]]

\* WithAuth(address, auth) applied to a client whose store is c
WithAuth(address, a, c) ==
    LET registry == NewRegistry(address)
    IN  IF registry.err THEN [err |-> TRUE, c |-> EmptyMap]
        ELSE [err |-> FALSE, c |-> Put(c, registry.registry, a)]

\* a failing option loses the client built so far
optionStepLosing(c, opt) ==
    WithAuth(opt.address, opt.auth, c).c

\* one turn of the options loop: cNew, err := opt(c); on error continue
optionStep(c, opt) ==
    LET r == WithAuth(opt.address, opt.auth, c)
    IN  IF r.err THEN c ELSE r.c

\* the registry name computed from a server key of the config file
registryNameOf(server) ==
    LET u == urlParse(server) IN IF u.err THEN server ELSE u.Host

\* an entry never replaces a credential the store already holds
loadAuthConfigKeep(c, server, blob) ==
    LET registry  == NewRegistry(registryNameOf(server))
        authSplit == Split(String(DecodeString(blob).bytes), ":")
    IN  IF registry.err \/ blob = <<>> \/ DecodeString(blob).err THEN c
        ELSE IF Len(authSplit) = 2 /\ registry.registry \notin DOMAIN c
            THEN Put(c, registry.registry, Auth(authSplit[1], authSplit[2]))
        ELSE c

\* an undecodable entry stores the zero credential for its domain
loadAuthConfigZero(c, server, blob) ==
    LET registry  == NewRegistry(registryNameOf(server))
        authSplit == Split(String(DecodeString(blob).bytes), ":")
    IN  IF registry.err \/ blob = <<>> THEN c
        ELSE IF DecodeString(blob).err THEN Put(c, registry.registry, NoAuth)
        ELSE IF Len(authSplit) = 2
            THEN Put(c, registry.registry, Auth(authSplit[1], authSplit[2]))
        ELSE c

\* a decoded string with more than one ':' is truncated to its first two fields
loadAuthConfigTruncating(c, server, blob) ==
    LET registry  == NewRegistry(registryNameOf(server))
        authSplit == Split(String(DecodeString(blob).bytes), ":")
    IN  IF registry.err \/ blob = <<>> \/ DecodeString(blob).err THEN c
        ELSE IF Len(authSplit) >= 2
            THEN Put(c, registry.registry, Auth(authSplit[1], authSplit[2]))
        ELSE c

\* one turn of the loop over dockerConfig.AuthConfigs
loadAuthConfig(c, server, blob) ==
    LET registry  == NewRegistry(registryNameOf(server))
        authDecode == DecodeString(blob)
        authSplit == Split(String(authDecode.bytes), ":")
    IN  IF registry.err THEN c
        ELSE IF blob = <<>> THEN c
        ELSE IF authDecode.err THEN c
        ELSE IF Len(authSplit) = 2
            THEN Put(c, registry.registry, Auth(authSplit[1], authSplit[2]))
        ELSE c

----------------------------------------------------------------------------
(* Inputs                                                                  *)

MaxOpts    == 2     \* options in one call of NewRegistryClient
MaxEntries == 2     \* auth entries in the config file
MaxCredLen == 3     \* length of the text an auth block decodes to

RIo      == <<"r",".","i","o">>
BadAddr  == <<"a","/","b">>
UP       == Auth(<<"u">>, <<"p">>)
UserPass == Auth(<<"u","s","e","r">>, <<"p","a","s","s">>)

Options == { [address |-> RIo,     auth |-> UP],
             [address |-> RIo,     auth |-> UserPass],
             [address |-> BadAddr, auth |-> UP] }

OptSeqs == UNION { [1..n -> Options] : n \in 0..MaxOpts }

HttpsRIoV1 == <<"h","t","t","p","s",":","/","/","r",".","i","o","/","v","1","/">>
HttpRIo    == <<"h","t","t","p",":","/","/","r",".","i","o">>
BadPort    == <<"1",".","1",":","x">>
IpPort     == <<"1",".","1",":","5">>

Servers == {HttpsRIoV1, HttpRIo, RIo, BadPort}

BlobUP       == <<"d","T","p","w">>                                  \* u:p
BlobUserPass == <<"d","X","N","l","c","j","p","w","Y","X","N","z">>  \* user:pass
BlobShort    == <<"d","T","p">>                                      \* not a quantum

Blobs == {BlobUP, BlobUserPass, BlobShort}

Range(f) == {f[i] : i \in DOMAIN f}

\* the files of at most MaxEntries entries: no two entries share a server key
Files == { f \in SUBSET [server : Servers, blob : Blobs] :
             /\ Cardinality(f) <= MaxEntries
             /\ \A e1, e2 \in f : e1.server = e2.server => e1 = e2 }

RECURSIVE StringsUpTo(_)
StringsUpTo(n) ==
    IF n = 0 THEN {<<>>}
    ELSE StringsUpTo(n - 1)
         \cup { Append(s, c) : s \in {t \in StringsUpTo(n - 1) : Len(t) = n - 1},
                               c \in {"u", "p", ":"} }

\* auth blocks: the encoding of every short text, and each one cut short
AuthBlocks ==
    LET enc == { EncodeToString(Bytes(s)) : s \in StringsUpTo(MaxCredLen) }
    IN  enc \cup { Before(b, Len(b)) : b \in enc \ {<<>>} } \cup {BlobUserPass}

----------------------------------------------------------------------------
(* Idle values of the parts a specification leaves alone                   *)

NoReq == [op |-> "none", sent |-> FALSE]
NoRes == [op |-> "none"]

HttpIdle ==
    /\ req = NoReq /\ grPc = "idle" /\ catalog = <<>> /\ srvFails = FALSE
    /\ last = <<>> /\ repos = <<>> /\ grErr = "nil" /\ pages = <<>> /\ requests = 0

NoImages == [name \in {} |-> <<>>]

LocalIdle ==
    /\ backend = "docker"
    /\ images = {} /\ conns = 0 /\ streams = 0 /\ res = NoRes /\ pulled = {}
    /\ ctrImages = NoImages

----------------------------------------------------------------------------
(* NewRegistryClient                                                       *)

\* c := &RegistryClient{}; c.auth = make(map[string]Auth)
Init ==
    /\ pc = "options" /\ auth = EmptyMap
    /\ opts \in OptSeqs /\ optI = 0
    /\ cfgStatus = "" /\ cfgFile = {} /\ cfgLog = <<>>
    /\ newErr = "pending"
    /\ HttpIdle /\ LocalIdle

\* for _, opt := range opts
ApplyOption ==
    /\ pc = "options" /\ optI < Len(opts)
    /\ auth' = optionStep(auth, opts[optI + 1])
    /\ optI' = optI + 1
    /\ UNCHANGED <<pc, opts, cfgStatus, cfgFile, cfgLog, newErr>>
    /\ UNCHANGED httpVars /\ UNCHANGED localVars

\* the file is not read: construction returns the client
SkipConfig(status) ==
    /\ pc = "options" /\ optI = Len(opts)
    /\ cfgStatus' = status
    /\ pc' = "ready" /\ newErr' = "nil"
    /\ UNCHANGED <<auth, opts, optI, cfgFile, cfgLog>>
    /\ UNCHANGED httpVars /\ UNCHANGED localVars

StatNotExist   == SkipConfig("absent")
ReadFileFails  == SkipConfig("unreadable")
UnmarshalFails == SkipConfig("badjson")

\* json.Unmarshal succeeds: the loop over AuthConfigs begins
UnmarshalOk ==
    /\ pc = "options" /\ optI = Len(opts)
    /\ cfgStatus' = "parsed"
    /\ cfgFile' \in Files
    /\ pc' = "config"
    /\ UNCHANGED <<auth, opts, optI, cfgLog, newErr>>
    /\ UNCHANGED httpVars /\ UNCHANGED localVars

\* for server, config := range dockerConfig.AuthConfigs, in any order
RangeEntry ==
    /\ pc = "config"
    /\ \E e \in cfgFile \ Range(cfgLog) :
          /\ auth' = loadAuthConfig(auth, e.server, e.blob)
          /\ cfgLog' = Append(cfgLog, e)
    /\ UNCHANGED <<pc, opts, optI, cfgStatus, cfgFile, newErr>>
    /\ UNCHANGED httpVars /\ UNCHANGED localVars

\* the loop is over: c.options = clientOpts; return c, nil
Return ==
    /\ pc = "config" /\ cfgFile = Range(cfgLog)
    /\ pc' = "ready" /\ newErr' = "nil"
    /\ UNCHANGED <<auth, opts, optI, cfgStatus, cfgFile, cfgLog>>
    /\ UNCHANGED httpVars /\ UNCHANGED localVars

Next ==
    \/ ApplyOption
    \/ StatNotExist
    \/ ReadFileFails
    \/ UnmarshalFails
    \/ UnmarshalOk
    \/ RangeEntry
    \/ Return

Spec == Init /\ [][Next]_vars

\* NewRegistryClient() on a config file of one auth entry, at the range loop
InitAuthBlock ==
    /\ pc = "config" /\ auth = EmptyMap
    /\ opts = <<>> /\ optI = 0
    /\ cfgStatus = "parsed"
    /\ \E server \in {IpPort, HttpsRIoV1}, blob \in AuthBlocks :
          cfgFile = {[server |-> server, blob |-> blob]}
    /\ cfgLog = <<>>
    /\ newErr = "pending"
    /\ HttpIdle /\ LocalIdle

NextAuthBlock ==
    \/ RangeEntry
    \/ Return

SpecAuthBlock == InitAuthBlock /\ [][NextAuthBlock]_vars

----------------------------------------------------------------------------
(* What the options and the file entries ask for                           *)

OptionFails(o)  == NewRegistry(o.address).err
OptionDomain(o) == NewRegistry(o.address).registry

EntryDomainBad(e) == NewRegistry(registryNameOf(e.server)).err
EntryDomain(e)    == NewRegistry(registryNameOf(e.server)).registry
Decoded(e)        == String(DecodeString(e.blob).bytes)

\* an entry with a valid registry domain whose block decodes to user:pass
WellFormed(e) ==
    LET dec == DecodeString(e.blob)
    IN  /\ ~EntryDomainBad(e)
        /\ e.blob # <<>> /\ ~dec.err
        /\ Count(String(dec.bytes), ":") = 1

EntryCred(e) ==
    LET txt == Decoded(e)
        i   == IndexOf(txt, ":")
    IN  Auth(Before(txt, i), After(txt, i))

RECURSIVE OptionWrites(_)
OptionWrites(os) ==
    IF os = <<>> THEN <<>>
    ELSE IF OptionFails(Head(os)) THEN OptionWrites(Tail(os))
    ELSE <<[key |-> OptionDomain(Head(os)), cred |-> Head(os).auth]>>
         \o OptionWrites(Tail(os))

RECURSIVE EntryWrites(_)
EntryWrites(es) ==
    IF es = <<>> THEN <<>>
    ELSE IF ~WellFormed(Head(es)) THEN EntryWrites(Tail(es))
    ELSE <<[key |-> EntryDomain(Head(es)), cred |-> EntryCred(Head(es))]>>
         \o EntryWrites(Tail(es))

Keys(ws) == {ws[i].key : i \in 1..Len(ws)}
LastCred(ws, d) ==
    ws[CHOOSE i \in 1..Len(ws) :
          ws[i].key = d /\ \A j \in (i + 1)..Len(ws) : ws[j].key # d].cred
StoreOf(ws) == [d \in Keys(ws) |-> LastCred(ws, d)]

----------------------------------------------------------------------------
(* Claims about NewRegistryClient                                          *)

\* C2: once NewRegistryClient has returned, the store holds one credential
\* for each canonicalized domain some valid override or well-formed file
\* entry named, and no other; it is the last writer's: where a well-formed
\* file entry exists for the domain, the credential of the file entry the
\* loop visited last, whatever the overrides said; where only overrides
\* exist, the credential of the last of them.
C2_LastWriterWins ==
    pc = "ready" =>
        LET ow == OptionWrites(opts)
            ew == EntryWrites(cfgLog)
        IN  /\ auth = StoreOf(ow \o ew)
            /\ \A d \in Keys(ew) : auth[d] = LastCred(ew, d)
            /\ \A d \in Keys(ow) \ Keys(ew) : auth[d] = LastCred(ow, d)

\* an override and a well-formed file entry for one domain, with different
\* credentials, and the client returned
C2_Witness ==
    /\ pc = "ready"
    /\ \E i \in 1..Len(opts), e \in Range(cfgLog) :
          /\ ~OptionFails(opts[i]) /\ WellFormed(e)
          /\ OptionDomain(opts[i]) = EntryDomain(e)
          /\ opts[i].auth # EntryCred(e)
          /\ auth[EntryDomain(e)] = EntryCred(e)

\* C3: while the options are applied the store is exactly what the
\* non-failing options applied so far wrote, last writer first: a failing
\* option changes nothing and the options after it still take effect; and
\* the error NewRegistryClient returns is nil.
C3_OptionsBestEffort ==
    /\ pc = "options" => auth = StoreOf(OptionWrites(SubSeq(opts, 1, optI)))
    /\ pc = "ready" => newErr = "nil"

\* a failing option followed by one that took effect, and the client returned
C3_Witness ==
    /\ pc = "ready" /\ newErr = "nil" /\ cfgStatus = "absent"
    /\ Len(opts) = 2
    /\ OptionFails(opts[1]) /\ ~OptionFails(opts[2])
    /\ OptionDomain(opts[2]) \in DOMAIN auth
    /\ auth[OptionDomain(opts[2])] = opts[2].auth

C9_AuthBlockRoundTrip ==
    (Len(cfgLog) = 1 /\ ~EntryDomainBad(cfgLog[1])) =>
        LET e   == cfgLog[1]
            dec == DecodeString(e.blob)
        IN  /\ \A user, pass \in StringsUpTo(MaxCredLen) \cup {UserPass.Username, UserPass.Password} :
                  ( /\ ~Contains(user, ":") /\ ~Contains(pass, ":")
                    /\ e.blob = EncodeToString(Bytes(user \o <<":">> \o pass)) )
                  => auth = Put(EmptyMap, EntryDomain(e), Auth(user, pass))
            /\ (~dec.err /\ Count(String(dec.bytes), ":") # 1) => auth = EmptyMap

\* the block of "user:pass" has been decoded into {user, pass}
C9_Witness ==
    /\ Len(cfgLog) = 1
    /\ cfgLog[1].blob = EncodeToString(Bytes(<<"u","s","e","r",":","p","a","s","s">>))
    /\ EntryDomain(cfgLog[1]) \in DOMAIN auth
    /\ auth[EntryDomain(cfgLog[1])] = UserPass

----------------------------------------------------------------------------
(* GetRepo, GetRepoTags, GetRepos                                          *)

MaxRepos == 3            \* repositories a registry holds
CatalogPageSize == 10000 \* the n of remote.CatalogPage(reg, last, 10000, ...)

Ubuntu    == <<"u">>
RIoUbuntu == RIo \o <<"/", "u">>
BadRepo   == <<"u", " ", "u">>
Repos     == {Ubuntu, RIoUbuntu, BadRepo}

Addresses == {defaultRegistryAlias, DefaultRegistry, RIo, BadAddr}

UNoPass == Auth(<<"u">>, <<>>)

\* the options the clients of the HTTP calls were built with
HttpOptSeqs ==
    { <<>>,
      <<[address |-> defaultRegistryAlias, auth |-> UP]>>,
      <<[address |-> RIo, auth |-> UserPass]>>,
      <<[address |-> RIo, auth |-> UNoPass]>> }

RECURSIVE applyOptions(_, _)
applyOptions(c, os) ==
    IF os = <<>> THEN c ELSE applyOptions(optionStep(c, Head(os)), Tail(os))

RepoNames == { <<Sym(25 + i)>> : i \in 1..MaxRepos }    \* "a", "b", "c", ...

\* the repository lists a registry may hold: no name twice
Catalogs ==
    { c \in UNION { [1..n -> RepoNames] : n \in 0..MaxRepos } :
        \A i, j \in 1..Len(c) : c[i] = c[j] => i = j }

\* var auth Auth; if v, ok := client.auth[key]; ok { auth = v }
lookup(c, key) == IF key \in DOMAIN c THEN c[key] ELSE NoAuth

\* if auth.Username != "" && auth.Password != "" { remote.WithAuth(&authn.Basic{...}) }
basicOf(a) ==
    IF a.Username # <<>> /\ a.Password # <<>>
    THEN [attached |-> TRUE, cred |-> a]
    ELSE [attached |-> FALSE, cred |-> NoAuth]

requestOf(op, c, named, ref) ==
    IF named.err \/ ref.err
    THEN [op |-> op, sent |-> FALSE, registry |-> <<>>,
          basic |-> basicOf(NoAuth)]
    ELSE [op |-> op, sent |-> TRUE, registry |-> ref.registry,
          basic |-> basicOf(lookup(c, named.Domain))]

\* GetRepo / GetRepoTags: the request the call sends, or the parse error
repoRequest(op, c, repo) ==
    requestOf(op, c, ParseDockerRef(repo), nameRegistryOf(repo))

catalogRequestOf(c, address, reg) ==
    IF reg.err
    THEN [op |-> "GetRepos", sent |-> FALSE, registry |-> <<>>,
          basic |-> basicOf(NoAuth)]
    ELSE [op |-> "GetRepos", sent |-> TRUE, registry |-> reg.registry,
          basic |-> basicOf(lookup(c, address))]

\* GetRepos: the credential is looked up under the address as given
catalogRequest(c, address) ==
    catalogRequestOf(c, address, NewRegistry(address))

\* the client of NewRegistryClient(os...) where no config file exists
InitHTTP ==
    /\ pc = "ready" /\ newErr = "nil"
    /\ opts \in HttpOptSeqs /\ optI = Len(opts)
    /\ auth = applyOptions(EmptyMap, opts)
    /\ cfgStatus = "absent" /\ cfgFile = {} /\ cfgLog = <<>>
    /\ HttpIdle /\ LocalIdle

GetRepo ==
    /\ pc = "ready" /\ grPc = "idle"
    /\ \E repo \in Repos : req' = repoRequest("GetRepo", auth, repo)
    /\ UNCHANGED <<grPc, catalog, srvFails, last, repos, grErr, pages, requests>>
    /\ UNCHANGED newVars /\ UNCHANGED localVars

GetRepoTags ==
    /\ pc = "ready" /\ grPc = "idle"
    /\ \E repo \in Repos : req' = repoRequest("GetRepoTags", auth, repo)
    /\ UNCHANGED <<grPc, catalog, srvFails, last, repos, grErr, pages, requests>>
    /\ UNCHANGED newVars /\ UNCHANGED localVars

\* GetRepos up to the loop: on a bad address return nil, err; else last := ""
GetRepos ==
    /\ pc = "ready" /\ grPc = "idle"
    /\ \E address \in Addresses :
          LET r == catalogRequest(auth, address)
          IN  /\ req' = r
              /\ IF r.sent
                 THEN /\ grPc' = "paging" /\ grErr' = "nil"
                      /\ catalog' \in Catalogs /\ srvFails' \in BOOLEAN
                 ELSE /\ grPc' = "done" /\ grErr' = "err"
                      /\ catalog' = <<>> /\ srvFails' = FALSE
    /\ last' = <<>> /\ repos' = <<>> /\ pages' = <<>> /\ requests' = 0
    /\ UNCHANGED newVars /\ UNCHANGED localVars

\* where the cursor stands in the registry's list: 0 for the empty cursor
cursorAt(c, cur) ==
    IF \E i \in 1..Len(c) : c[i] = cur
    THEN CHOOSE i \in 1..Len(c) : c[i] = cur ELSE 0

\* the pages a registry may answer with: the entries right after the
\* cursor, at least one and at most n of them while any is left
pagesAfter(c, cur, n) ==
    LET from == cursorAt(c, cur)
        left == Len(c) - from
    IN  IF left = 0 THEN {<<>>}
        ELSE { SubSeq(c, from + 1, from + k) :
                 k \in 1..(IF left < n THEN left ELSE n) }

\* the cursor follows the first entry of the page
nextCursorFirst(reposTemp) == reposTemp[1]

\* last = reposTemp[len(reposTemp)-1]
nextCursor(reposTemp) == reposTemp[Len(reposTemp)]

\* the pages gathered are dropped when a request fails
reposOnErrorNil(acc) == <<>>

\* if err != nil { break } ... return repos, err
reposOnError(acc) == acc

\* one turn of the loop: remote.CatalogPage answers with a page
CatalogPageOk ==
    /\ grPc = "paging"
    /\ \E reposTemp \in pagesAfter(catalog, last, CatalogPageSize) :
          IF Len(reposTemp) > 0
          THEN /\ repos' = repos \o reposTemp
               /\ pages' = Append(pages, reposTemp)
               /\ last' = nextCursor(reposTemp)
               /\ UNCHANGED <<grPc, grErr>>
          ELSE /\ grPc' = "done"
               /\ UNCHANGED <<repos, pages, last, grErr>>
    /\ requests' = requests + 1
    /\ UNCHANGED <<req, catalog, srvFails>>
    /\ UNCHANGED newVars /\ UNCHANGED localVars

\* one turn of the loop: remote.CatalogPage fails
CatalogPageFails ==
    /\ grPc = "paging" /\ srvFails
    /\ grErr' = "err" /\ grPc' = "done"
    /\ repos' = reposOnError(repos)
    /\ requests' = requests + 1
    /\ UNCHANGED <<req, catalog, srvFails, last, pages>>
    /\ UNCHANGED newVars /\ UNCHANGED localVars

NextHTTP ==
    \/ GetRepo
    \/ GetRepoTags
    \/ GetRepos
    \/ CatalogPageOk
    \/ CatalogPageFails

\* a call in progress goes on: the registry answers every request
SpecHTTP ==
    InitHTTP /\ [][NextHTTP]_vars /\ WF_vars(CatalogPageOk \/ CatalogPageFails)

----------------------------------------------------------------------------
(* Claims about the HTTP calls                                             *)

\* C1: a GetRepos call whose registry answers every page request ends, and
\* it ends with a nil error and with every repository of the registry once,
\* in the registry's order, however the registry cut its list into pages.
C1_CatalogComplete ==
    /\ [](grPc = "done" /\ ~srvFails /\ requests > 0 =>
              grErr = "nil" /\ repos = catalog)
    /\ (grPc = "paging") ~> (grPc = "done")

\* a list of MaxRepos repositories gathered from more than one page
C1_Witness ==
    /\ grPc = "done" /\ ~srvFails /\ grErr = "nil"
    /\ Len(catalog) = MaxRepos /\ Len(pages) > 1
    /\ repos = catalog

\* C4: a GetRepos call that ends on a failed page request returns the pages
\* served before it, concatenated in order, with the error, and has made
\* one request more than the pages it was served.
C4_PartialOnError ==
    (grPc = "done" /\ grErr # "nil" /\ requests > 0) =>
        /\ repos = Flatten(pages)
        /\ requests = Len(pages) + 1

\* two pages served, then a failed request
C4_Witness ==
    /\ grPc = "done" /\ grErr # "nil" /\ requests = 3
    /\ Len(pages) = 2 /\ repos = Flatten(pages) /\ Len(repos) >= 2

\* a credential: both fields set ("empty strings mean no credential")
HoldsCredential(c, d) ==
    d \in DOMAIN c /\ c[d].Username # <<>> /\ c[d].Password # <<>>

\* C5: the request of GetRepo, GetRepoTags or GetRepos carries basic
\* authentication exactly when the store holds a credential for the
\* registry the request goes to, and then it carries that credential.
C5_AuthIffStored ==
    (req.op # "none" /\ req.sent) =>
        /\ req.basic.attached <=> HoldsCredential(auth, req.registry)
        /\ req.basic.attached => req.basic.cred = auth[req.registry]

----------------------------------------------------------------------------
(* Pull and Remove: the docker daemon client and the containerd client     *)

MaxOpen == 3     \* daemon clients left open before the model stops calling

ns == <<"v","e","i","n","m","i","n","d","-","r","u","n","n","e","r">>

Digests == { <<"s","h","a","2","5","6",":","1">>, <<"s","h","a","2","5","6",":","2">> }

\* command.EncodeAuthToBase64(AuthConfig{Username, Password}): the JSON of
\* the AuthConfig in base64, "{}" for the zero Auth: never the empty string
EncodeAuthToBase64(a) == <<"json", a>>

\* what a pull request meets: the daemon or the registry refuses it, or the
\* response stream is opened and then read to its end or not
PullOutcomes == {"AuthError", "NetworkError", "ReadError", "ok"}

\* the registry lets the pull through: anonymous pulls are permitted, or
\* the request carries a credential
pullPermitted(authRequired, token) ==
    ~authRequired \/ (token # <<>> /\ token[2] # NoAuth)

pullResult(repo, authRequired, id, err, panic, opened, streamed, keyed) ==
    [op |-> "Pull", repo |-> repo, id |-> id, err |-> err, panic |-> panic,
     opened |-> opened, streamed |-> streamed, stored |-> id # <<>>,
     keyed |-> keyed, authRequired |-> authRequired, again |-> FALSE]

pullNamed(c, repo, named, clientErr, authRequired, outcome, token, keyed) ==
    IF clientErr THEN
        pullResult(repo, authRequired, <<>>, "ClientError", FALSE, 0, 0, FALSE)
    ELSE IF named.err THEN
        pullResult(repo, authRequired, <<>>, "InvalidReference", FALSE, 0, 0, FALSE)
    ELSE IF ~pullPermitted(authRequired, token)
            \/ outcome \in {"AuthError", "NetworkError"} THEN
        \* closer is nil and err is overwritten: ioutil.ReadAll(nil) panics
        pullResult(repo, authRequired, <<>>, "none", TRUE, 1, 0, keyed)
    ELSE IF outcome = "ReadError" THEN
        pullResult(repo, authRequired, <<>>, "ReadError", FALSE, 1, 1, keyed)
    ELSE pullResult(repo, authRequired, named.String, "nil", FALSE, 1, 1, keyed)

pullDomain(c, repo, named, clientErr, authRequired, outcome) ==
    pullNamed(c, repo, named, clientErr, authRequired, outcome,
              EncodeAuthToBase64(lookup(c, named.Domain)), named.Domain \in DOMAIN c)

\* docker Pull(repo), with what the environment answers at each call
dockerPull(c, repo, clientErr, authRequired, outcome) ==
    pullDomain(c, repo, ParseDockerRef(repo), clientErr, authRequired, outcome)

\* the daemon's answer to ImageRemove(id): it resolves the identifier as a
\* reference and removes what it names
hasNamed(imgs, named) == ~named.err /\ named.String \in imgs

daemonHas(imgs, id) == hasNamed(imgs, ParseDockerRef(id))

InitLocal ==
    /\ pc = "ready" /\ newErr = "nil"
    /\ opts \in HttpOptSeqs /\ optI = Len(opts)
    /\ auth = applyOptions(EmptyMap, opts)
    /\ cfgStatus = "absent" /\ cfgFile = {} /\ cfgLog = <<>>
    /\ HttpIdle
    /\ backend \in {"docker", "containerd"}
    /\ images = {} /\ conns = 0 /\ streams = 0 /\ res = NoRes /\ pulled = {}
    /\ ctrImages = NoImages

Pull ==
    /\ backend = "docker" /\ conns < MaxOpen
    /\ \E repo \in Repos, clientErr \in BOOLEAN, authRequired \in BOOLEAN,
          outcome \in PullOutcomes :
          LET r == dockerPull(auth, repo, clientErr, authRequired, outcome)
          IN  /\ res' = r
              /\ conns' = conns + r.opened
              /\ streams' = streams + r.streamed
              /\ images' = IF r.stored THEN images \cup {r.id} ELSE images
              /\ pulled' = IF r.id # <<>> THEN pulled \cup {r.id} ELSE pulled
    /\ UNCHANGED <<backend, ctrImages>>
    /\ UNCHANGED newVars /\ UNCHANGED httpVars

\* whether this Remove(id) follows a Remove(id) that reached the backend
follows(r, id) ==
    r.op = "Remove" /\ r.id = id /\ r.err \in {"nil", "NotFound"}

\* if named, err := reference.ParseDockerRef(repo); err == nil { repo = named.String() }
canonicalOf(repo, named) == IF named.err THEN repo ELSE named.String

canonical(repo) == canonicalOf(repo, ParseDockerRef(repo))

removeResult(id, err, again) ==
    [op |-> "Remove", repo |-> id, id |-> id, err |-> err, panic |-> FALSE,
     opened |-> IF err = "ClientError" THEN 0 ELSE 1, streamed |-> 0,
     stored |-> FALSE, keyed |-> FALSE, authRequired |-> FALSE, again |-> again]

\* c.ImageRemove(id): what the daemon answers
imageRemoveErr(clientErr, has) ==
    IF clientErr THEN "ClientError" ELSE IF has THEN "nil" ELSE "NotFound"

Remove ==
    /\ backend = "docker" /\ conns < MaxOpen
    /\ \E id \in pulled \cup {Ubuntu}, clientErr \in BOOLEAN :
          /\ res' = removeResult(id, imageRemoveErr(clientErr, daemonHas(images, id)),
                                 follows(res, id))
          /\ conns' = IF clientErr THEN conns ELSE conns + 1
          /\ images' = IF clientErr THEN images ELSE images \ {canonical(id)}
    /\ UNCHANGED <<backend, streams, pulled, ctrImages>>
    /\ UNCHANGED newVars /\ UNCHANGED httpVars

\* imageID := strings.Join([]string{ns, string(image.Target().Digest)}, "/")
imageID(digest) == ns \o <<"/">> \o digest

drop(m, k) == [x \in DOMAIN m \ {k} |-> m[x]]

\* containerd Pull(repo): the image is stored under the name pulled
containerdPull ==
    /\ backend = "containerd"
    /\ \E repo \in Repos, digest \in Digests, pullErr \in BOOLEAN :
          IF pullErr
          THEN /\ res' = pullResult(repo, FALSE, <<>>, "PullError", FALSE, 0, 0, FALSE)
               /\ UNCHANGED <<ctrImages, pulled>>
          ELSE /\ res' = pullResult(repo, FALSE, imageID(digest), "nil", FALSE, 0, 0, FALSE)
               /\ ctrImages' = Put(ctrImages, canonical(repo), digest)
               /\ pulled' = pulled \cup {imageID(digest)}
    /\ UNCHANGED <<backend, images, conns, streams>>
    /\ UNCHANGED newVars /\ UNCHANGED httpVars

\* imageStore.Delete(ctx, repo, ...): NotFound unless an image has the name
deleteErr(imgs, name) == IF name \in DOMAIN imgs THEN "nil" ELSE "NotFound"

\* containerd Remove(repo): imageStore.Delete by the canonicalized name
containerdRemove ==
    /\ backend = "containerd"
    /\ \E repo \in pulled \cup {Ubuntu} :
          /\ res' = [removeResult(repo, deleteErr(ctrImages, canonical(repo)),
                                  follows(res, repo)) EXCEPT !.opened = 0]
          /\ ctrImages' = drop(ctrImages, canonical(repo))
    /\ UNCHANGED <<backend, images, conns, streams, pulled>>
    /\ UNCHANGED newVars /\ UNCHANGED httpVars

NextLocal ==
    \/ Pull
    \/ Remove
    \/ containerdPull
    \/ containerdRemove

SpecLocal == InitLocal /\ [][NextLocal]_vars

----------------------------------------------------------------------------
(* Claims about Pull and Remove                                            *)

\* an image is stored under the identifier: the daemon resolves it to an
\* image; containerd holds an image of that digest in the namespace
StoredUnder(id) ==
    IF backend = "docker" THEN daemonHas(images, id)
    ELSE \E name \in DOMAIN ctrImages : imageID(ctrImages[name]) = id

\* C6: on either backend, once Remove(id) has returned for an identifier a
\* successful Pull returned, and has reached the backend, no image is stored
\* under id; and a Remove(id) that follows a Remove(id) fails with NotFound.
C6_PullThenRemove ==
    (res.op = "Remove" /\ res.id \in pulled /\ res.err # "ClientError") =>
        /\ ~StoredUnder(res.id)
        /\ res.again => res.err = "NotFound"

\* C7: a daemon Pull of a valid reference whose domain has no credential in
\* the store, the daemon being reachable: where the registry permits
\* anonymous pulls and the pull goes through, the canonical reference and a
\* nil error; where the registry requires authentication, an empty
\* identifier and the AuthError, and no panic.
C7_AnonymousPull ==
    (backend = "docker" /\ res.op = "Pull" /\ ~res.keyed
        /\ res.err \notin {"ClientError", "InvalidReference", "ReadError"}) =>
        IF res.authRequired
        THEN res.id = <<>> /\ res.err = "AuthError" /\ ~res.panic
        ELSE res.panic \/ (res.id = ParseDockerRef(res.repo).String /\ res.err = "nil")

\* C10: once a daemon Pull or Remove has returned, whatever it returned,
\* every daemon client and response stream it opened has been closed.
C10_ResourcesReleased ==
    (backend = "docker" /\ res.op \in {"Pull", "Remove"} /\ ~res.panic) =>
        conns = 0 /\ streams = 0

====
